---- MODULE Spec2Model ----
(***************************************************************************)
(* Model of the FAQ answering engine of backend/app/apis/faq/__init__.py:  *)
(* the stored FAQ list, the shared VectorSearch index (TF-IDF vectors and  *)
(* cosine similarity), the CRUD endpoints and search_faq with its          *)
(* generative fallback.  Every request runs on a worker thread; th[t].pc   *)
(* is the position of thread t in its handler, one step per access to the  *)
(* storage or to an attribute of the shared index.                         *)
(*                                                                         *)
(* Numbers.  Confidences and thresholds are floats in the code; here they  *)
(* are integers in thousandths (ConfScale = 1.0).  TF-IDF weights are      *)
(* integers in tenths (IdfScale = 1.0).                                    *)
(* Texts.  An FAQ question, answer or query is a sequence of words (the    *)
(* text split at white space); the fallback's reply is a sequence of       *)
(* characters, because the sentinel test is a character substring test.    *)
(* Left out.  The tags of an entry (they enter neither the corpus nor a    *)
(* decision); a failure of db.storage.json.put.  uuid4() gives a fresh id  *)
(* and the two datetime.now() of one handler give the same tick of a       *)
(* clock that advances with every stamped write.                           *)
(*                                                                         *)
(* The module also models the delivery engine of                           *)
(* backend/app/apis/delivery/__init__.py: the stored templates, products   *)
(* and delivery records and the endpoints that write them (DeliverySpec).  *)
(* A template's content is a sequence of tokens, a piece of text or a      *)
(* placeholder {{name}}; a dict is the sequence of its items in insertion  *)
(* order.  Left out there: names, descriptions, prices, customer fields    *)
(* and timestamps (no decision reads them), the read-only endpoints, and   *)
(* a failure of db.storage.json.put.                                       *)
(***************************************************************************)
EXTENDS Integers, Sequences, FiniteSets, TLC

(***************************************************************************)
(* Bounds of the model: the stored list holds at most MaxFaqs entries when  *)
(* a create request starts, and at most MaxOps requests are started.       *)
(***************************************************************************)
MaxFaqs == 2
MaxOps == 3

Threads == {1, 2}

(***************************************************************************)
(* Number representation.                                                  *)
(***************************************************************************)
ConfScale == 1000
IdfScale == 10
LnScale == 10000

DefaultThreshold == 500
DeclinedConfidence == 400
GeneratedConfidence == 700

\* Optional values (Python's None or a value): the empty or a one-element sequence.
None == <<>>
Some(x) == <<x>>
IsNone(o) == o = <<>>
Val(o) == o[1]

(***************************************************************************)
(* Generic helpers.                                                        *)
(***************************************************************************)
Range(s) == {s[i] : i \in DOMAIN s}

RECURSIVE SumSeq(_)
SumSeq(s) == IF s = <<>> THEN 0 ELSE Head(s) + SumSeq(Tail(s))

RECURSIVE ISqrtFrom(_, _, _)
\* Largest r in lo..hi with r*r <= n (lo*lo <= n is given).
ISqrtFrom(n, lo, hi) ==
    IF lo >= hi THEN lo
    ELSE LET mid == (lo + hi + 1) \div 2
         IN  IF mid * mid <= n THEN ISqrtFrom(n, mid, hi)
             ELSE ISqrtFrom(n, lo, mid - 1)

ISqrt(n) == ISqrtFrom(n, 0, IF n < 46340 THEN n ELSE 46340)

(***************************************************************************)
(* Words and the vectorizer's analyzer.  TfidfVectorizer() lowercases the  *)
(* text and keeps the tokens of two or more word characters; the           *)
(* vocabulary is kept in sorted order, one matrix column per term.         *)
(***************************************************************************)
LowerWord(w) ==
    CASE w = "Reset" -> "reset"
      [] w = "Login" -> "login"
      [] w = "A" -> "a"
      [] OTHER -> w

ShortWords == {"a"}

SortedTerms == <<"login", "password", "reset", "weather">>

RECURSIVE Analyze(_)
Analyze(text) ==
    IF text = <<>> THEN <<>>
    ELSE LET w == LowerWord(Head(text))
         IN  IF w \in ShortWords THEN Analyze(Tail(text))
             ELSE <<w>> \o Analyze(Tail(text))

Tf(term, tokens) == Cardinality({i \in DOMAIN tokens : tokens[i] = term})

\* corpus = [f"{faq.question} {faq.answer}" for faq in faqs]
Corpus(fs) == [i \in DOMAIN fs |-> fs[i].question \o fs[i].answer]

Vocabulary(corpus) ==
    SelectSeq(SortedTerms,
              LAMBDA term : \E i \in DOMAIN corpus : term \in Range(Analyze(corpus[i])))

Df(term, corpus) ==
    Cardinality({i \in DOMAIN corpus : term \in Range(Analyze(corpus[i]))})

RECURSIVE AtanhSeries(_, _, _, _)
\* y + y^3/3 + y^5/5 + ... in units of 1/LnScale; pw = y^k, y2 = y^2.
AtanhSeries(pw, y2, k, terms) ==
    IF terms = 0 \/ pw = 0 THEN 0
    ELSE pw \div k + AtanhSeries((pw * y2) \div LnScale, y2, k + 2, terms - 1)

\* ln(num/den) in units of 1/LnScale, for num >= den > 0:
\* ln x = 2 atanh((x-1)/(x+1)).
LnScaled(num, den) ==
    LET y == (LnScale * (num - den)) \div (num + den)
    IN  2 * AtanhSeries(y, (y * y) \div LnScale, 1, 8)

\* smooth idf of scikit-learn: ln((1 + n) / (1 + df)) + 1, in units of 1/IdfScale.
Idf(n, df) ==
    IdfScale + (LnScaled(1 + n, 1 + df) * IdfScale + LnScale \div 2) \div LnScale

\* The fitted state of the vectorizer: vocabulary_ and idf_.
FitVectorizer(corpus) ==
    LET vocab == Vocabulary(corpus)
    IN  [fitted |-> TRUE,
         vocab  |-> vocab,
         idf    |-> [j \in DOMAIN vocab |-> Idf(Len(corpus), Df(vocab[j], corpus))]]

UnfittedVectorizer == [fitted |-> FALSE, vocab |-> <<>>, idf |-> <<>>]

\* vectorizer.transform([text]): one row, a weight per vocabulary column
\* (terms outside the vocabulary are dropped).
Transform(vz, text) ==
    [j \in DOMAIN vz.vocab |-> Tf(vz.vocab[j], Analyze(text)) * vz.idf[j]]

\* The document matrix fit_transform returns: one row per document.
TransformAll(vz, corpus) == [i \in DOMAIN corpus |-> Transform(vz, corpus[i])]

Dot(u, v) == SumSeq([j \in DOMAIN u |-> u[j] * v[j]])

\* (mutant) the dot product without the division by the norms
CosineNotNormalised(u, v) == (ConfScale * Dot(u, v)) \div (IdfScale * IdfScale)

\* cosine of two rows of the same width, in thousandths; a zero row gives 0.
Cosine(u, v) ==
    LET uu == Dot(u, u)
        vv == Dot(v, v)
    IN  IF uu = 0 \/ vv = 0 THEN 0
        ELSE (ConfScale * Dot(u, v)) \div ISqrt(uu * vv)

\* cosine_similarity(query_vec, vectors).flatten()
Similarities(qv, vecs) == [i \in DOMAIN vecs |-> Cosine(qv, vecs[i])]

\* (mutant) the last index of the maximum
ArgMaxLast(sims) ==
    CHOOSE i \in DOMAIN sims :
        /\ \A k \in DOMAIN sims : sims[k] <= sims[i]
        /\ \A k \in DOMAIN sims : k > i => sims[k] < sims[i]

\* np.argmax: the first index of the maximum (1-based here).
ArgMax(sims) ==
    CHOOSE i \in DOMAIN sims :
        /\ \A k \in DOMAIN sims : sims[k] <= sims[i]
        /\ \A k \in DOMAIN sims : k < i => sims[k] < sims[i]

(***************************************************************************)
(* Inputs of the requests.                                                 *)
(***************************************************************************)
Questions == {<<"Reset", "password">>, <<"login">>, <<"a">>}
Answers == {<<"login">>, <<"a">>}
Queries == {<<"reset", "password">>, <<"login">>, <<"weather">>}
Thresholds == {0, DefaultThreshold, ConfScale}
FaqIds == 1..MaxFaqs

(***************************************************************************)
(* State.                                                                  *)
(*   storage        the JSON list under the key "faqs" (db.storage.json)   *)
(*   vector_search  the module-level VectorSearch instance                 *)
(*   faqsOwner      the thread whose local list `faqs` is the very list    *)
(*                  object vector_search.faqs refers to (0: none); Python  *)
(*                  assigns the reference, so append/pop/item assignment   *)
(*                  on that local list changes vector_search.faqs too      *)
(*   openai_client  TRUE when the client was constructed at import         *)
(*   nextId, clock  sources of uuid4() and datetime.now()                  *)
(*   opsStarted     number of requests started                             *)
(*   th             per thread: the handler's position and locals; fbCalls *)
(*                  counts the calls of the completion service, fbWill    *)
(*                  and fbResult record what the service does, outcome    *)
(*                  names the return statement the handler left by;       *)
(*                  repeated tells that a direct add_faqs call has the    *)
(*                  argument of the add_faqs call just before it          *)
(***************************************************************************)
VARIABLES storage, vector_search, faqsOwner, openai_client, nextId, clock,
          opsStarted, th

(***************************************************************************)
(* State of the delivery module (backend/app/apis/delivery/__init__.py):   *)
(* the JSON lists under the keys "delivery_templates", "delivery_products" *)
(* and "delivery_records", and the response of the last delivery request.  *)
(***************************************************************************)
VARIABLES delivery_templates, delivery_products, delivery_records,
          delivery_response

deliveryVars == <<delivery_templates, delivery_products, delivery_records,
                  delivery_response>>

vars == <<storage, vector_search, faqsOwner, openai_client, nextId, clock,
          opsStarted, th, deliveryVars>>

\* class QueryResponse: the defaults of its fields.
QueryResponse(answer, confidence, source_faq_id, has_answer) ==
    [status |-> 200, answer |-> answer, confidence |-> confidence,
     source_faq_id |-> source_faq_id, has_answer |-> has_answer]

DefaultQueryResponse == QueryResponse(None, 0, None, FALSE)

HttpStatus(code) == [DefaultQueryResponse EXCEPT !.status = code]

NoRequest == [question |-> <<>>, answer |-> <<>>, faq_id |-> 0,
              confidence_threshold |-> 0]

IdleThread ==
    [pc |-> "idle", op |-> "none", request |-> NoRequest, faqs |-> <<>>,
     caller |-> "none", X |-> <<>>, query_vec |-> <<>>, best_idx |-> 0,
     best_similarity |-> 0, searched |-> FALSE, best_match |-> None,
     confidence |-> 0, fbCalls |-> 0, fbWill |-> "none", fbResult |-> "none",
     ai_answer |-> None, repeated |-> FALSE,
     outcome |-> "none", response |-> HttpStatus(0)]

\* No delivery request has been made and the three delivery keys are unset
\* (db.storage.json.get(..., default=[])).
NoDeliveryResponse == [op |-> "none", status |-> 0, message_content |-> None]

DeliveryStorageEmpty ==
    /\ delivery_templates = <<>>
    /\ delivery_products = <<>>
    /\ delivery_records = <<>>
    /\ delivery_response = NoDeliveryResponse

\* VectorSearch.__init__
NewVectorSearch ==
    [vectorizer |-> UnfittedVectorizer, faqs |-> <<>>, vectors |-> None,
     initialized |-> FALSE]

Init ==
    /\ storage = <<>>
    /\ vector_search = NewVectorSearch
    /\ faqsOwner = 0
    /\ openai_client \in BOOLEAN
    /\ nextId = 1
    /\ clock = 1
    /\ opsStarted = 0
    /\ th = [t \in Threads |-> IdleThread]
    /\ DeliveryStorageEmpty

\* The process starts again over a stored list that an earlier create_faq
\* request wrote: the module-level state is fresh, the storage is not.
InitRestarted ==
    /\ storage = <<[id |-> 1, question |-> <<"Reset", "password">>,
                     answer |-> <<"login">>,
                     created_at |-> [iso |-> 1], updated_at |-> [iso |-> 1]]>>
    /\ vector_search = NewVectorSearch
    /\ faqsOwner = 0
    /\ openai_client \in BOOLEAN
    /\ nextId = 2
    /\ clock = 2
    /\ opsStarted = 1
    /\ th = [t \in Threads |-> IdleThread]
    /\ DeliveryStorageEmpty

(***************************************************************************)
(* Storage format: save_faqs writes each item as a dict with the two       *)
(* datetimes as ISO strings; get_faqs parses each dict back into an FAQItem. *)
(***************************************************************************)
IsoFormat(dt) == [iso |-> dt]
ParseDatetime(s) == s.iso

FaqDict(faq) ==
    [id |-> faq.id, question |-> faq.question, answer |-> faq.answer,
     created_at |-> IsoFormat(faq.created_at),
     updated_at |-> IsoFormat(faq.updated_at)]

FAQItem(d) ==
    [id |-> d.id, question |-> d.question, answer |-> d.answer,
     created_at |-> ParseDatetime(d.created_at),
     updated_at |-> ParseDatetime(d.updated_at)]

(***************************************************************************)
(* A request arrives and is given to the first idle worker thread.  Every  *)
(* handler starts with faqs = get_faqs().                                  *)
(***************************************************************************)
Idle(t) == th[t].pc \in {"idle", "done"}

Begin(t, name, req) ==
    /\ Idle(t)
    /\ \A u \in Threads : u < t => ~Idle(u)
    /\ opsStarted < MaxOps
    /\ opsStarted' = opsStarted + 1
    /\ th' = [th EXCEPT ![t] = [IdleThread EXCEPT !.pc = "get_read",
                                                   !.op = name,
                                                   !.request = req]]
    \* the list of the thread's previous request is no longer its local list
    /\ faqsOwner' = IF faqsOwner = t THEN 0 ELSE faqsOwner
    /\ UNCHANGED <<deliveryVars, storage, vector_search, openai_client, nextId, clock>>

CallGetAllFaqs(t) == Begin(t, "get_all_faqs", NoRequest)

CallCreateFaq(t) ==
    /\ Len(storage) < MaxFaqs
    /\ \E q \in Questions, a \in Answers :
         Begin(t, "create_faq", [NoRequest EXCEPT !.question = q, !.answer = a])

CallGetFaq(t) ==
    \E id \in FaqIds : Begin(t, "get_faq", [NoRequest EXCEPT !.faq_id = id])

CallUpdateFaq(t) ==
    \E id \in FaqIds, q \in Questions, a \in Answers :
        Begin(t, "update_faq",
              [NoRequest EXCEPT !.faq_id = id, !.question = q, !.answer = a])

CallDeleteFaq(t) ==
    \E id \in FaqIds : Begin(t, "delete_faq", [NoRequest EXCEPT !.faq_id = id])

CallSearchFaq(t) ==
    \E q \in Queries, thr \in Thresholds :
        Begin(t, "search_faq",
              [NoRequest EXCEPT !.question = q, !.confidence_threshold = thr])

(***************************************************************************)
(* get_faqs: read and parse the stored list, hand it to the index.  Any    *)
(* exception inside (the storage read, add_faqs) is caught and the         *)
(* function returns a new empty list.                                      *)
(***************************************************************************)
GetFaqsCaught(thr) == [thr EXCEPT !.faqs = <<>>, !.pc = "after_get"]

\* (mutant) the stored list is read but the index is not rebuilt from it
GetReadNoRebuild(t) ==
    /\ th[t].pc = "get_read"
    /\ \E readOk \in BOOLEAN :
         th' = [th EXCEPT ![t] =
                  IF readOk
                  THEN [@ EXCEPT !.faqs = [i \in DOMAIN storage |-> FAQItem(storage[i])],
                                 !.caller = "get_faqs",
                                 !.pc = "after_get"]
                  ELSE GetFaqsCaught(@)]
    /\ UNCHANGED <<deliveryVars, storage, vector_search, faqsOwner, openai_client, nextId,
                   clock, opsStarted>>

GetRead(t) ==
    /\ th[t].pc = "get_read"
    /\ \E readOk \in BOOLEAN :
         th' = [th EXCEPT ![t] =
                  IF readOk
                  THEN [@ EXCEPT !.faqs = [i \in DOMAIN storage |-> FAQItem(storage[i])],
                                 !.caller = "get_faqs",
                                 !.pc = "add_set_faqs"]
                  ELSE GetFaqsCaught(@)]
    /\ UNCHANGED <<deliveryVars, storage, vector_search, faqsOwner, openai_client, nextId,
                   clock, opsStarted>>

(***************************************************************************)
(* VectorSearch.add_faqs, one step per attribute it writes.  The caller is *)
(* get_faqs (which catches every exception) or save_faqs (which does not). *)
(***************************************************************************)
Raised(thr) ==
    [thr EXCEPT !.pc = "done", !.outcome = "RAISED", !.response = HttpStatus(500)]

ReturnFromAddFaqs(thr) ==
    IF thr.caller = "get_faqs"
    THEN [thr EXCEPT !.pc = "after_get", !.X = <<>>]
    ELSE [thr EXCEPT !.pc = "done", !.X = <<>>, !.outcome = "OK",
                     !.response = HttpStatus(200)]

\* self.faqs = faqs
AddSetFaqs(t) ==
    /\ th[t].pc = "add_set_faqs"
    /\ vector_search' = [vector_search EXCEPT !.faqs = th[t].faqs]
    /\ faqsOwner' = t
    /\ th' = [th EXCEPT ![t].pc = IF th[t].faqs # <<>> THEN "add_fit"
                                  ELSE "add_clear_vectors"]
    /\ UNCHANGED <<deliveryVars, storage, openai_client, nextId, clock, opsStarted>>

\* self.vectorizer.fit_transform(corpus): refits the shared vectorizer and
\* returns the matrix; a corpus without any token raises ValueError
\* ("empty vocabulary").
AddFit(t) ==
    /\ th[t].pc = "add_fit"
    /\ LET corpus == Corpus(th[t].faqs)
           vz == FitVectorizer(corpus)
       IN  IF Vocabulary(corpus) = <<>>
           THEN /\ UNCHANGED vector_search
                /\ IF th[t].caller = "get_faqs"
                   THEN /\ th' = [th EXCEPT ![t] = GetFaqsCaught(@)]
                        /\ faqsOwner' = IF faqsOwner = t THEN 0 ELSE faqsOwner
                   ELSE /\ th' = [th EXCEPT ![t] = Raised(@)]
                        /\ UNCHANGED faqsOwner
           ELSE /\ vector_search' = [vector_search EXCEPT !.vectorizer = vz]
                /\ th' = [th EXCEPT ![t].X = TransformAll(vz, corpus),
                                    ![t].pc = "add_set_vectors"]
                /\ UNCHANGED faqsOwner
    /\ UNCHANGED <<deliveryVars, storage, openai_client, nextId, clock, opsStarted>>

\* self.vectors = <the matrix>
AddSetVectors(t) ==
    /\ th[t].pc = "add_set_vectors"
    /\ vector_search' = [vector_search EXCEPT !.vectors = Some(th[t].X)]
    /\ th' = [th EXCEPT ![t].pc = "add_set_initialized"]
    /\ UNCHANGED <<deliveryVars, storage, faqsOwner, openai_client, nextId, clock, opsStarted>>

\* self.initialized = True
AddSetInitialized(t) ==
    /\ th[t].pc = "add_set_initialized"
    /\ vector_search' = [vector_search EXCEPT !.initialized = TRUE]
    /\ th' = [th EXCEPT ![t] = ReturnFromAddFaqs(@)]
    /\ UNCHANGED <<deliveryVars, storage, faqsOwner, openai_client, nextId, clock, opsStarted>>

\* self.vectors = None
AddClearVectors(t) ==
    /\ th[t].pc = "add_clear_vectors"
    /\ vector_search' = [vector_search EXCEPT !.vectors = None]
    /\ th' = [th EXCEPT ![t].pc = "add_clear_initialized"]
    /\ UNCHANGED <<deliveryVars, storage, faqsOwner, openai_client, nextId, clock, opsStarted>>

\* self.initialized = False
AddClearInitialized(t) ==
    /\ th[t].pc = "add_clear_initialized"
    /\ vector_search' = [vector_search EXCEPT !.initialized = FALSE]
    /\ th' = [th EXCEPT ![t] = ReturnFromAddFaqs(@)]
    /\ UNCHANGED <<deliveryVars, storage, faqsOwner, openai_client, nextId, clock, opsStarted>>

(***************************************************************************)
(* The CRUD handlers after faqs = get_faqs().  A change of the local list  *)
(* also changes vector_search.faqs while both are the same list object.    *)
(***************************************************************************)
Done(thr, code) ==
    [thr EXCEPT !.pc = "done", !.outcome = IF code = 200 THEN "OK" ELSE "HTTP_ERROR",
                !.response = HttpStatus(code)]

\* next((i for i, f in enumerate(faqs) if f.id == faq_id), None); 0 for None
FaqIndex(fs, id) ==
    IF \E i \in DOMAIN fs : fs[i].id = id
    THEN CHOOSE i \in DOMAIN fs :
           fs[i].id = id /\ \A k \in DOMAIN fs : fs[k].id = id => i <= k
    ELSE 0

RemoveAt(fs, idx) ==
    [i \in 1..(Len(fs) - 1) |-> IF i < idx THEN fs[i] ELSE fs[i + 1]]

MutateList(t, newList) ==
    /\ th' = [th EXCEPT ![t].faqs = newList, ![t].pc = "save_put"]
    /\ vector_search' = IF faqsOwner = t
                        THEN [vector_search EXCEPT !.faqs = newList]
                        ELSE vector_search

GetAllFaqsReturn(t) ==
    /\ th[t].pc = "after_get" /\ th[t].op = "get_all_faqs"
    /\ th' = [th EXCEPT ![t] = Done(@, 200)]
    /\ UNCHANGED <<deliveryVars, storage, vector_search, faqsOwner, openai_client, nextId,
                   clock, opsStarted>>

GetFaqReturn(t) ==
    /\ th[t].pc = "after_get" /\ th[t].op = "get_faq"
    /\ th' = [th EXCEPT ![t] =
                Done(@, IF FaqIndex(th[t].faqs, th[t].request.faq_id) = 0
                        THEN 404 ELSE 200)]
    /\ UNCHANGED <<deliveryVars, storage, vector_search, faqsOwner, openai_client, nextId,
                   clock, opsStarted>>

\* new_faq = FAQItem(id=str(uuid.uuid4()), ...); faqs.append(new_faq)
CreateFaqAppend(t) ==
    /\ th[t].pc = "after_get" /\ th[t].op = "create_faq"
    /\ LET new_faq == [id |-> nextId,
                       question |-> th[t].request.question,
                       answer |-> th[t].request.answer,
                       created_at |-> clock, updated_at |-> clock]
       IN  MutateList(t, Append(th[t].faqs, new_faq))
    /\ nextId' = nextId + 1
    /\ clock' = clock + 1
    /\ UNCHANGED <<deliveryVars, storage, faqsOwner, openai_client, opsStarted>>

\* (mutant) the updated entry appended, the old one left in the list
UpdateFaqAppended(t) ==
    /\ th[t].pc = "after_get" /\ th[t].op = "update_faq"
    /\ LET faq_index == FaqIndex(th[t].faqs, th[t].request.faq_id)
           updated_faq == [id |-> th[t].request.faq_id,
                           question |-> th[t].request.question,
                           answer |-> th[t].request.answer,
                           created_at |-> th[t].faqs[faq_index].created_at,
                           updated_at |-> clock]
       IN  IF faq_index = 0
           THEN /\ th' = [th EXCEPT ![t] = Done(@, 404)]
                /\ UNCHANGED <<vector_search, clock>>
           ELSE /\ MutateList(t, Append(th[t].faqs, updated_faq))
                /\ clock' = clock + 1
    /\ UNCHANGED <<deliveryVars, storage, faqsOwner, openai_client, nextId, opsStarted>>

\* (mutant) the entry rebuilt as a new one: created_at taken from the clock
UpdateFaqReplaceRestamped(t) ==
    /\ th[t].pc = "after_get" /\ th[t].op = "update_faq"
    /\ LET faq_index == FaqIndex(th[t].faqs, th[t].request.faq_id)
           updated_faq == [id |-> th[t].request.faq_id,
                           question |-> th[t].request.question,
                           answer |-> th[t].request.answer,
                           created_at |-> clock,
                           updated_at |-> clock]
       IN  IF faq_index = 0
           THEN /\ th' = [th EXCEPT ![t] = Done(@, 404)]
                /\ UNCHANGED <<vector_search, clock>>
           ELSE /\ MutateList(t, [th[t].faqs EXCEPT ![faq_index] = updated_faq])
                /\ clock' = clock + 1
    /\ UNCHANGED <<deliveryVars, storage, faqsOwner, openai_client, nextId, opsStarted>>

\* updated_faq = FAQItem(id=faq_id, ..., created_at=faqs[faq_index].created_at,
\* updated_at=datetime.datetime.now()); faqs[faq_index] = updated_faq
UpdateFaqReplace(t) ==
    /\ th[t].pc = "after_get" /\ th[t].op = "update_faq"
    /\ LET faq_index == FaqIndex(th[t].faqs, th[t].request.faq_id)
           updated_faq == [id |-> th[t].request.faq_id,
                           question |-> th[t].request.question,
                           answer |-> th[t].request.answer,
                           created_at |-> th[t].faqs[faq_index].created_at,
                           updated_at |-> clock]
       IN  IF faq_index = 0
           THEN /\ th' = [th EXCEPT ![t] = Done(@, 404)]
                /\ UNCHANGED <<vector_search, clock>>
           ELSE /\ MutateList(t, [th[t].faqs EXCEPT ![faq_index] = updated_faq])
                /\ clock' = clock + 1
    /\ UNCHANGED <<deliveryVars, storage, faqsOwner, openai_client, nextId, opsStarted>>

\* (mutant) pop() without the index: the last entry is removed
DeleteFaqPopLast(t) ==
    /\ th[t].pc = "after_get" /\ th[t].op = "delete_faq"
    /\ LET faq_index == FaqIndex(th[t].faqs, th[t].request.faq_id)
       IN  IF faq_index = 0
           THEN /\ th' = [th EXCEPT ![t] = Done(@, 404)]
                /\ UNCHANGED vector_search
           ELSE MutateList(t, RemoveAt(th[t].faqs, Len(th[t].faqs)))
    /\ UNCHANGED <<deliveryVars, storage, faqsOwner, openai_client, nextId, clock, opsStarted>>

\* faq_index = next(...); if faq_index is None: raise HTTPException(404);
\* faqs.pop(faq_index)
DeleteFaqPop(t) ==
    /\ th[t].pc = "after_get" /\ th[t].op = "delete_faq"
    /\ LET faq_index == FaqIndex(th[t].faqs, th[t].request.faq_id)
       IN  IF faq_index = 0
           THEN /\ th' = [th EXCEPT ![t] = Done(@, 404)]
                /\ UNCHANGED vector_search
           ELSE MutateList(t, RemoveAt(th[t].faqs, faq_index))
    /\ UNCHANGED <<deliveryVars, storage, faqsOwner, openai_client, nextId, clock, opsStarted>>

\* save_faqs: db.storage.json.put("faqs", faqs_data), then add_faqs(faqs)
SavePut(t) ==
    /\ th[t].pc = "save_put"
    /\ storage' = [i \in DOMAIN th[t].faqs |-> FaqDict(th[t].faqs[i])]
    /\ th' = [th EXCEPT ![t].caller = "save_faqs", ![t].pc = "add_set_faqs"]
    /\ UNCHANGED <<deliveryVars, vector_search, faqsOwner, openai_client, nextId, clock,
                   opsStarted>>

(***************************************************************************)
(* The fallback's reply and the sentinel test                              *)
(*     "don't have enough information" in ai_answer.lower()                *)
(***************************************************************************)
LowerLetters == <<"a", "d", "e", "f", "g", "h", "i", "k", "m", "n", "o", "r",
                  "t", "u", "v">>
UpperLetters == <<"A", "D", "E", "F", "G", "H", "I", "K", "M", "N", "O", "R",
                  "T", "U", "V">>

\* str.lower() and str.upper() on one character
LowerChar(c) ==
    IF \E i \in DOMAIN UpperLetters : UpperLetters[i] = c
    THEN LowerLetters[CHOOSE i \in DOMAIN UpperLetters : UpperLetters[i] = c]
    ELSE c

UpperChar(c) ==
    IF \E i \in DOMAIN LowerLetters : LowerLetters[i] = c
    THEN UpperLetters[CHOOSE i \in DOMAIN LowerLetters : LowerLetters[i] = c]
    ELSE c

LowerText(text) == [i \in DOMAIN text |-> LowerChar(text[i])]
UpperText(text) == [i \in DOMAIN text |-> UpperChar(text[i])]
MixedText(text) ==
    [i \in DOMAIN text |-> IF i % 2 = 0 THEN UpperChar(text[i]) ELSE text[i]]

Sentinel ==
    <<"d", "o", "n", "'", "t", " ", "h", "a", "v", "e", " ",
      "e", "n", "o", "u", "g", "h", " ",
      "i", "n", "f", "o", "r", "m", "a", "t", "i", "o", "n">>

\* needle in hay
Contains(hay, needle) ==
    \E i \in 1..(Len(hay) - Len(needle) + 1) :
        SubSeq(hay, i, i + Len(needle) - 1) = needle

\* The texts the completion service may return.
FallbackTexts ==
    { Sentinel,
      UpperText(Sentinel),
      <<"I", " ">> \o MixedText(Sentinel) \o <<" ", "t", "o", ".">>,
      SubSeq(Sentinel, 1, Len(Sentinel) - 1),
      <<"d", "o", "n", "t", " ">> \o SubSeq(Sentinel, 7, Len(Sentinel)),
      <<"O", "K">>,
      <<>> }

\* response.choices[0].message.content: a text or None
FallbackContents == {None} \cup {Some(text) : text \in FallbackTexts}

(***************************************************************************)
(* search_faq after faqs = get_faqs(), with VectorSearch.search one step   *)
(* per attribute of the shared index it reads.                             *)
(***************************************************************************)
\* (mutant) the best row returned whatever its score
MeetsThresholdIgnored(best_similarity, threshold) == best_similarity >= 0

\* (mutant) the comparison made strict
MeetsThresholdStrict(best_similarity, threshold) == best_similarity > threshold

\* if best_similarity >= threshold
MeetsThreshold(best_similarity, threshold) == best_similarity >= threshold

\* (mutant) the sentinel test without lower()
IsDeclinedCaseSensitive(ai_answer) == Contains(ai_answer, Sentinel)

\* if "don't have enough information" in ai_answer.lower()
IsDeclined(ai_answer) == Contains(LowerText(ai_answer), Sentinel)

\* (mutant) the id of the first entry of the list as the source
DirectMatchReturnFirstId(thr) ==
    [thr EXCEPT !.pc = "done", !.outcome = "DIRECT_MATCH",
                !.response = QueryResponse(Some(Val(thr.best_match).answer),
                                           thr.confidence,
                                           Some(thr.faqs[1].id), TRUE)]

\* return QueryResponse(answer=best_match.answer, confidence=confidence,
\*                      source_faq_id=best_match.id, has_answer=True)
DirectMatchReturn(thr) ==
    [thr EXCEPT !.pc = "done", !.outcome = "DIRECT_MATCH",
                !.response = QueryResponse(Some(Val(thr.best_match).answer),
                                           thr.confidence,
                                           Some(Val(thr.best_match).id), TRUE)]

\* (mutant) the final return without the score
NoAnswerReturnZero(thr) ==
    [thr EXCEPT !.pc = "done", !.outcome = "NO_ANSWER",
                !.response = QueryResponse(None, 0, None, FALSE)]

\* return QueryResponse(has_answer=False, confidence=confidence)
NoAnswerReturn(thr) ==
    [thr EXCEPT !.pc = "done", !.outcome = "NO_ANSWER",
                !.response = QueryResponse(None, thr.confidence, None, FALSE)]

\* return QueryResponse(has_answer=False, confidence=0.4)
DeclinedReturn(thr) ==
    [thr EXCEPT !.pc = "done", !.outcome = "DECLINED",
                !.response = QueryResponse(None, DeclinedConfidence, None, FALSE)]

\* (mutant) the generated answer returned with the search's score
GeneratedReturnWithScore(thr) ==
    [thr EXCEPT !.pc = "done", !.outcome = "GENERATED",
                !.response = QueryResponse(Some(Val(thr.ai_answer)),
                                           thr.confidence, None, TRUE)]

\* return QueryResponse(answer=ai_answer, confidence=0.7, has_answer=True)
GeneratedReturn(thr) ==
    [thr EXCEPT !.pc = "done", !.outcome = "GENERATED",
                !.response = QueryResponse(Some(Val(thr.ai_answer)),
                                           GeneratedConfidence, None, TRUE)]

\* search has returned (best_match, confidence): if best_match ... ;
\* if openai_client ... ; else the final return
AfterSearch(thr, best_match, confidence) ==
    LET r == [thr EXCEPT !.searched = TRUE, !.best_match = best_match,
                         !.confidence = confidence]
    IN  IF ~IsNone(best_match) THEN DirectMatchReturn(r)
        ELSE IF openai_client THEN [r EXCEPT !.pc = "fallback_call"]
        ELSE NoAnswerReturn(r)

\* (mutant) the test of the empty list left out: the search runs on the
\* index that is not ready
EmptyKbReturnSkipped(thr) == AfterSearch(thr, None, 0)

\* if not faqs: return QueryResponse(has_answer=False)
EmptyKbReturn(thr) ==
    [thr EXCEPT !.pc = "done", !.outcome = "EMPTY_KB",
                !.response = QueryResponse(None, 0, None, FALSE)]

\* after the test of faqs; search: if not self.initialized or not self.faqs
SearchFaqBegin(t) ==
    /\ th[t].pc = "after_get" /\ th[t].op = "search_faq"
    /\ th' = [th EXCEPT ![t] =
                IF th[t].faqs = <<>> THEN EmptyKbReturn(@)
                ELSE IF ~vector_search.initialized \/ vector_search.faqs = <<>>
                     THEN AfterSearch(@, None, 0)
                     ELSE [@ EXCEPT !.pc = "search_transform"]]
    /\ UNCHANGED <<deliveryVars, storage, vector_search, faqsOwner, openai_client, nextId,
                   clock, opsStarted>>

\* query_vec = self.vectorizer.transform([query])
SearchTransform(t) ==
    /\ th[t].pc = "search_transform"
    /\ th' = [th EXCEPT ![t] =
                IF ~vector_search.vectorizer.fitted THEN Raised(@)
                ELSE [@ EXCEPT !.query_vec = Transform(vector_search.vectorizer,
                                                       th[t].request.question),
                               !.pc = "search_cosine"]]
    /\ UNCHANGED <<deliveryVars, storage, vector_search, faqsOwner, openai_client, nextId,
                   clock, opsStarted>>

\* similarities = cosine_similarity(query_vec, self.vectors).flatten();
\* best_idx = np.argmax(similarities).  With self.vectors None the query is
\* compared with itself; matrices of different widths raise ValueError.
SearchCosine(t) ==
    /\ th[t].pc = "search_cosine"
    /\ LET qv == th[t].query_vec
           vecs == IF IsNone(vector_search.vectors) THEN <<qv>>
                   ELSE Val(vector_search.vectors)
           sims == Similarities(qv, vecs)
       IN  th' = [th EXCEPT ![t] =
                    IF Len(vecs[1]) # Len(qv) THEN Raised(@)
                    ELSE [@ EXCEPT !.best_idx = ArgMax(sims),
                                   !.best_similarity = sims[ArgMax(sims)],
                                   !.query_vec = <<>>,
                                   !.pc = "search_pick"]]
    /\ UNCHANGED <<deliveryVars, storage, vector_search, faqsOwner, openai_client, nextId,
                   clock, opsStarted>>

\* if best_similarity >= threshold: return self.faqs[best_idx], ...
\* return None, float(best_similarity)
SearchPick(t) ==
    /\ th[t].pc = "search_pick"
    /\ th' = [th EXCEPT ![t] =
                IF MeetsThreshold(th[t].best_similarity,
                                  th[t].request.confidence_threshold)
                THEN IF th[t].best_idx > Len(vector_search.faqs) THEN Raised(@)
                     ELSE AfterSearch(@, Some(vector_search.faqs[th[t].best_idx]),
                                      th[t].best_similarity)
                ELSE AfterSearch(@, None, th[t].best_similarity)]
    /\ UNCHANGED <<deliveryVars, storage, vector_search, faqsOwner, openai_client, nextId,
                   clock, opsStarted>>

\* openai_client.chat.completions.create(...): the request is sent; the
\* service answers (with a completion or an error) or never does.
FallbackCall(t) ==
    /\ th[t].pc = "fallback_call"
    /\ \E will \in {"responds", "hangs"} :
         th' = [th EXCEPT ![t].fbCalls = @ + 1, ![t].fbWill = will,
                          ![t].pc = "fallback_wait"]
    /\ UNCHANGED <<deliveryVars, storage, vector_search, faqsOwner, openai_client, nextId,
                   clock, opsStarted>>

\* ai_answer = response.choices[0].message.content and the sentinel test;
\* None has no lower(): AttributeError, caught by except Exception
FallbackReturn(t) ==
    /\ th[t].pc = "fallback_wait" /\ th[t].fbWill = "responds"
    /\ \E content \in FallbackContents :
         th' = [th EXCEPT ![t] =
                  LET r == [@ EXCEPT !.ai_answer = content,
                                     !.fbResult = "returned"]
                  IN  IF IsNone(content) THEN NoAnswerReturn(r)
                      ELSE IF IsDeclined(Val(content)) THEN DeclinedReturn(r)
                      ELSE GeneratedReturn(r)]
    /\ UNCHANGED <<deliveryVars, storage, vector_search, faqsOwner, openai_client, nextId,
                   clock, opsStarted>>

\* (mutant) the call is made again after an exception
FallbackRaiseRetry(t) ==
    /\ th[t].pc = "fallback_wait" /\ th[t].fbWill = "responds"
    /\ th' = [th EXCEPT ![t].fbResult = "raised", ![t].pc = "fallback_call"]
    /\ UNCHANGED <<deliveryVars, storage, vector_search, faqsOwner, openai_client, nextId,
                   clock, opsStarted>>

\* the call raises: except Exception, then the final return
FallbackRaise(t) ==
    /\ th[t].pc = "fallback_wait" /\ th[t].fbWill = "responds"
    /\ th' = [th EXCEPT ![t] = NoAnswerReturn([@ EXCEPT !.fbResult = "raised"])]
    /\ UNCHANGED <<deliveryVars, storage, vector_search, faqsOwner, openai_client, nextId,
                   clock, opsStarted>>

(***************************************************************************)
(* VectorSearch.add_faqs and VectorSearch.search as whole calls on an      *)
(* index `self`, for a caller that uses the class directly.  Each gives    *)
(* the index after the call and tells whether the call raised.             *)
(***************************************************************************)
\* (mutant) the entries added to those already indexed
add_faqs_extending(self, faqs) ==
    LET all == self.faqs \o faqs
        vz == FitVectorizer(Corpus(all))
    IN  [raised |-> FALSE,
         self |-> [vectorizer |-> vz, faqs |-> all,
                   vectors |-> Some(TransformAll(vz, Corpus(all))),
                   initialized |-> TRUE]]

\* (mutant) an empty list clears the matrix but not the ready flag
add_faqs_keeping_flag(self, faqs) ==
    LET corpus == Corpus(faqs)
        vz == FitVectorizer(corpus)
        s1 == [self EXCEPT !.faqs = faqs]
    IN  IF faqs # <<>>
        THEN IF Vocabulary(corpus) = <<>>
             THEN [raised |-> TRUE, self |-> s1]
             ELSE [raised |-> FALSE,
                   self |-> [s1 EXCEPT !.vectorizer = vz,
                                       !.vectors = Some(TransformAll(vz, corpus)),
                                       !.initialized = TRUE]]
        ELSE [raised |-> FALSE, self |-> [s1 EXCEPT !.vectors = None]]

\* def add_faqs(self, faqs)
add_faqs(self, faqs) ==
    LET corpus == Corpus(faqs)
        vz == FitVectorizer(corpus)
        s1 == [self EXCEPT !.faqs = faqs]
    IN  IF faqs # <<>>
        THEN IF Vocabulary(corpus) = <<>>
             THEN [raised |-> TRUE, self |-> s1]
             ELSE [raised |-> FALSE,
                   self |-> [s1 EXCEPT !.vectorizer = vz,
                                       !.vectors = Some(TransformAll(vz, corpus)),
                                       !.initialized = TRUE]]
        ELSE [raised |-> FALSE,
              self |-> [s1 EXCEPT !.vectors = None, !.initialized = FALSE]]

SearchResult(best_match, score) ==
    [raised |-> FALSE, best_match |-> best_match, score |-> score]

SearchRaised == [raised |-> TRUE, best_match |-> None, score |-> 0]

\* def search(self, query, threshold=0.5)
search(self, query, threshold) ==
    IF ~self.initialized \/ self.faqs = <<>> THEN SearchResult(None, 0)
    ELSE IF ~self.vectorizer.fitted THEN SearchRaised
    ELSE LET query_vec == Transform(self.vectorizer, query)
             vecs == IF IsNone(self.vectors) THEN <<query_vec>>
                     ELSE Val(self.vectors)
             similarities == Similarities(query_vec, vecs)
             best_idx == ArgMax(similarities)
             best_similarity == similarities[best_idx]
         IN  IF Len(vecs[1]) # Len(query_vec) THEN SearchRaised
             ELSE IF MeetsThreshold(best_similarity, threshold)
                  THEN IF best_idx > Len(self.faqs) THEN SearchRaised
                       ELSE SearchResult(Some(self.faqs[best_idx]), best_similarity)
                  ELSE SearchResult(None, best_similarity)

\* The entry lists and the queries handed to the index: every list of up to
\* MaxFaqs entries over three question and answer pairs (the last one
\* without any token the vectorizer keeps), ids by position; every query of
\* the requests and every question as it was entered.
IndexedEntries ==
    { <<<<"Reset", "password">>, <<"login">>>>,
      <<<<"login">>, <<"a">>>>,
      <<<<"a">>, <<"a">>>> }

IndexedLists ==
    UNION {{[i \in 1..k |-> [id |-> i, question |-> f[i][1], answer |-> f[i][2],
                             created_at |-> 1, updated_at |-> 1]] :
              f \in [1..k -> IndexedEntries]} : k \in 0..MaxFaqs}

IndexQueries == Queries \cup Questions

\* vector_search.add_faqs(faqs); the thread record keeps the call and how
\* it ended.
AddFaqsCall(t) ==
    \E faqs \in IndexedLists :
        LET r == add_faqs(vector_search, faqs)
        IN  /\ vector_search' = r.self
            /\ th' = [th EXCEPT ![t] =
                        [IdleThread EXCEPT !.pc = "done", !.op = "add_faqs",
                                           !.faqs = faqs,
                                           !.repeated = (th[t].op = "add_faqs"
                                                         /\ th[t].faqs = faqs),
                                           !.outcome = IF r.raised THEN "RAISED"
                                                       ELSE "OK"]]
            /\ UNCHANGED <<deliveryVars, storage, faqsOwner, openai_client, nextId, clock,
                           opsStarted>>

\* best_match, confidence = vector_search.search(query, threshold)
SearchCall(t) ==
    \E query \in IndexQueries, threshold \in Thresholds :
        LET r == search(vector_search, query, threshold)
        IN  /\ th' = [th EXCEPT ![t] =
                        [IdleThread EXCEPT !.pc = "done", !.op = "search",
                                           !.request.question = query,
                                           !.request.confidence_threshold = threshold,
                                           !.searched = TRUE,
                                           !.best_match = r.best_match,
                                           !.confidence = r.score,
                                           !.outcome = IF r.raised THEN "RAISED"
                                                       ELSE "OK"]]
            /\ UNCHANGED <<deliveryVars, storage, vector_search, faqsOwner, openai_client,
                           nextId, clock, opsStarted>>

(***************************************************************************)
(* The delivery module: templates, products and deliveries.  A template's  *)
(* content is a sequence of tokens, each a piece of text or a placeholder  *)
(* {{name}}; a dict is the sequence of its items in insertion order.  A    *)
(* stored item keeps the fields that enter a decision (id, content,        *)
(* variables, template_id, template_variables, message_content).  Each     *)
(* get_* helper catches every exception and returns a new empty list.      *)
(***************************************************************************)
MaxDeliveryOps == 4

Text(s) == [kind |-> "text", s |-> s]
Placeholder(name) == [kind |-> "placeholder", s |-> name]

\* re.findall(r'{{([\w_]+)}}', content)
FindVariables(content) ==
    LET found == SelectSeq(content, LAMBDA tok : tok.kind = "placeholder")
    IN  [i \in DOMAIN found |-> found[i].s]

RECURSIVE Replace(_, _, _)
\* message_content.replace('{{' + var_name + '}}', var_value)
Replace(content, var_name, var_value) ==
    IF content = <<>> THEN <<>>
    ELSE (IF Head(content) = Placeholder(var_name) THEN var_value
          ELSE <<Head(content)>>)
         \o Replace(Tail(content), var_name, var_value)

Keys(d) == {d[i].key : i \in DOMAIN d}

\* d[key] = value: a present key keeps its place, a new one goes last
SetItem(d, key, value) ==
    IF key \in Keys(d)
    THEN [i \in DOMAIN d |-> IF d[i].key = key
                             THEN [key |-> key, value |-> value] ELSE d[i]]
    ELSE Append(d, [key |-> key, value |-> value])

RECURSIVE DictUpdate(_, _)
\* variables.update(request.variables)
DictUpdate(d, other) ==
    IF other = <<>> THEN d
    ELSE DictUpdate(SetItem(d, Head(other).key, Head(other).value), Tail(other))

RECURSIVE Render(_, _)
\* for var_name, var_value in variables.items(): message_content = ...
Render(message_content, variables) ==
    IF variables = <<>> THEN message_content
    ELSE Render(Replace(message_content, Head(variables).key,
                        Head(variables).value),
                Tail(variables))

\* Inputs of the delivery requests.
VarNames == {"name", "code"}
VarValues == {<<Text("Ann")>>, <<Placeholder("code")>>}
Contents ==
    { <<Text("Hi")>>,
      <<Text("Hi"), Placeholder("name")>>,
      <<Placeholder("name"), Placeholder("code")>> }
Dicts ==
    {<<>>}
    \cup {<<[key |-> k, value |-> v]>> : k \in VarNames, v \in VarValues}
    \cup {d \in {<<[key |-> k, value |-> v],
                     [key |-> l, value |-> <<Text("Ann")>>]>> :
                     k \in VarNames, l \in VarNames, v \in VarValues} :
             d[1].key # d[2].key}
DeliveryIds == 1..3

\* get_templates / get_products / get_deliveries: the stored list, or []
\* when the read or the parsing raised
get_templates(readOk) == IF readOk THEN delivery_templates ELSE <<>>
get_products(readOk) == IF readOk THEN delivery_products ELSE <<>>
get_deliveries(readOk) == IF readOk THEN delivery_records ELSE <<>>

\* next((i for i, x in enumerate(items) if x.id == id), None); 0 for None
IndexOfId(items, id) == FaqIndex(items, id)

\* [var for var in template.variables if var not in request.template_variables]
MissingVars(template, template_variables) ==
    SelectSeq(template.variables, LAMBDA var : var \notin Keys(template_variables))

\* The handler returns (200) or raises HTTPException(status); the variables
\* of the FAQ module are left alone.
DeliveryReturn(op, status, message_content) ==
    /\ opsStarted < MaxDeliveryOps
    /\ opsStarted' = opsStarted + 1
    /\ delivery_response' = [op |-> op, status |-> status,
                             message_content |-> message_content]
    /\ UNCHANGED <<storage, vector_search, faqsOwner, openai_client, clock, th>>

\* def create_template(request)
create_template ==
    \E content \in Contents, readOk \in BOOLEAN :
        LET templates == get_templates(readOk)
            new_template == [id |-> nextId, content |-> content,
                             variables |-> FindVariables(content)]
        IN  /\ delivery_templates' = Append(templates, new_template)
            /\ nextId' = nextId + 1
            /\ DeliveryReturn("create_template", 200, None)
            /\ UNCHANGED <<delivery_products, delivery_records>>

\* def update_template(template_id, request)
update_template ==
    \E template_id \in DeliveryIds, content \in Contents, readOk \in BOOLEAN :
        LET templates == get_templates(readOk)
            template_index == IndexOfId(templates, template_id)
            updated_template == [id |-> template_id, content |-> content,
                                 variables |-> FindVariables(content)]
        IN  /\ IF template_index = 0
               THEN /\ DeliveryReturn("update_template", 404, None)
                    /\ UNCHANGED delivery_templates
               ELSE /\ delivery_templates' =
                         [templates EXCEPT ![template_index] = updated_template]
                    /\ DeliveryReturn("update_template", 200, None)
            /\ UNCHANGED <<delivery_products, delivery_records, nextId>>

\* def delete_template(template_id)
delete_template ==
    \E template_id \in DeliveryIds, readOk \in BOOLEAN, productsOk \in BOOLEAN :
        LET templates == get_templates(readOk)
            template_index == IndexOfId(templates, template_id)
            products == get_products(productsOk)
        IN  /\ IF template_index = 0
               THEN /\ DeliveryReturn("delete_template", 404, None)
                    /\ UNCHANGED delivery_templates
               ELSE IF \E i \in DOMAIN products :
                           products[i].template_id = template_id
               THEN /\ DeliveryReturn("delete_template", 400, None)
                    /\ UNCHANGED delivery_templates
               ELSE /\ delivery_templates' = RemoveAt(templates, template_index)
                    /\ DeliveryReturn("delete_template", 200, None)
            /\ UNCHANGED <<delivery_products, delivery_records, nextId>>

\* def create_product(request)
create_product ==
    \E template_id \in DeliveryIds, template_variables \in Dicts,
       readOk \in BOOLEAN, productsOk \in BOOLEAN :
        LET templates == get_templates(readOk)
            template_index == IndexOfId(templates, template_id)
            products == get_products(productsOk)
            new_product == [id |-> nextId, template_id |-> template_id,
                            template_variables |-> template_variables]
        IN  /\ IF template_index = 0
               THEN /\ DeliveryReturn("create_product", 404, None)
                    /\ UNCHANGED <<delivery_products, nextId>>
               ELSE IF MissingVars(templates[template_index],
                                   template_variables) # <<>>
               THEN /\ DeliveryReturn("create_product", 400, None)
                    /\ UNCHANGED <<delivery_products, nextId>>
               ELSE /\ delivery_products' = Append(products, new_product)
                    /\ nextId' = nextId + 1
                    /\ DeliveryReturn("create_product", 200, None)
            /\ UNCHANGED <<delivery_templates, delivery_records>>

\* def update_product(product_id, request)
update_product ==
    \E product_id \in DeliveryIds, template_id \in DeliveryIds,
       template_variables \in Dicts, readOk \in BOOLEAN, productsOk \in BOOLEAN :
        LET templates == get_templates(readOk)
            template_index == IndexOfId(templates, template_id)
            products == get_products(productsOk)
            product_index == IndexOfId(products, product_id)
            updated_product == [id |-> product_id, template_id |-> template_id,
                                template_variables |-> template_variables]
        IN  /\ IF template_index = 0
               THEN /\ DeliveryReturn("update_product", 404, None)
                    /\ UNCHANGED delivery_products
               ELSE IF MissingVars(templates[template_index],
                                   template_variables) # <<>>
               THEN /\ DeliveryReturn("update_product", 400, None)
                    /\ UNCHANGED delivery_products
               ELSE IF product_index = 0
               THEN /\ DeliveryReturn("update_product", 404, None)
                    /\ UNCHANGED delivery_products
               ELSE /\ delivery_products' =
                         [products EXCEPT ![product_index] = updated_product]
                    /\ DeliveryReturn("update_product", 200, None)
            /\ UNCHANGED <<delivery_templates, delivery_records, nextId>>

\* def delete_product(product_id)
delete_product ==
    \E product_id \in DeliveryIds, productsOk \in BOOLEAN :
        LET products == get_products(productsOk)
            product_index == IndexOfId(products, product_id)
        IN  /\ IF product_index = 0
               THEN /\ DeliveryReturn("delete_product", 404, None)
                    /\ UNCHANGED delivery_products
               ELSE /\ delivery_products' = RemoveAt(products, product_index)
                    /\ DeliveryReturn("delete_product", 200, None)
            /\ UNCHANGED <<delivery_templates, delivery_records, nextId>>

\* def create_delivery(request); request.variables is None or a dict
create_delivery ==
    \E product_id \in DeliveryIds,
       request_variables \in {None} \cup {Some(d) : d \in Dicts},
       productsOk \in BOOLEAN, readOk \in BOOLEAN, deliveriesOk \in BOOLEAN :
        LET products == get_products(productsOk)
            product_index == IndexOfId(products, product_id)
            product == products[product_index]
            templates == get_templates(readOk)
            template_index == IndexOfId(templates, product.template_id)
            template == templates[template_index]
            variables == IF IsNone(request_variables) \/ Val(request_variables) = <<>>
                         THEN product.template_variables
                         ELSE DictUpdate(product.template_variables,
                                         Val(request_variables))
            message_content == Render(template.content, variables)
            deliveries == get_deliveries(deliveriesOk)
            new_delivery == [id |-> nextId, product_id |-> product_id,
                             message_content |-> message_content,
                             template_id |-> template.id]
        IN  /\ IF product_index = 0
               THEN /\ DeliveryReturn("create_delivery", 404, None)
                    /\ UNCHANGED <<delivery_records, nextId>>
               ELSE IF template_index = 0
               THEN /\ DeliveryReturn("create_delivery", 404, None)
                    /\ UNCHANGED <<delivery_records, nextId>>
               ELSE /\ delivery_records' = Append(deliveries, new_delivery)
                    /\ nextId' = nextId + 1
                    /\ DeliveryReturn("create_delivery", 200,
                                      Some(message_content))
            /\ UNCHANGED <<delivery_templates, delivery_products>>

(***************************************************************************)
(* Specifications.  Spec: the endpoints are plain `def` handlers, which    *)
(* the server runs on worker threads, so requests interleave; it starts    *)
(* over a stored list of one entry.  SeqSpec: one request at a time (a     *)
(* single worker), from an empty storage.                                  *)
(* IndexSpec: the VectorSearch object driven through its two methods.      *)
(* DeliverySpec: the template, product and delivery requests of the        *)
(* delivery module, one at a time, each handler in one step.               *)
(***************************************************************************)
Step(t) ==
    \/ CallGetAllFaqs(t)
    \/ CallCreateFaq(t)
    \/ CallGetFaq(t)
    \/ CallUpdateFaq(t)
    \/ CallDeleteFaq(t)
    \/ CallSearchFaq(t)
    \/ GetRead(t)
    \/ AddSetFaqs(t)
    \/ AddFit(t)
    \/ AddSetVectors(t)
    \/ AddSetInitialized(t)
    \/ AddClearVectors(t)
    \/ AddClearInitialized(t)
    \/ GetAllFaqsReturn(t)
    \/ GetFaqReturn(t)
    \/ CreateFaqAppend(t)
    \/ UpdateFaqReplace(t)
    \/ DeleteFaqPop(t)
    \/ SavePut(t)
    \/ SearchFaqBegin(t)
    \/ SearchTransform(t)
    \/ SearchCosine(t)
    \/ SearchPick(t)
    \/ FallbackCall(t)
    \/ FallbackReturn(t)
    \/ FallbackRaise(t)

Next == \E t \in Threads : Step(t)

Spec == InitRestarted /\ [][Next]_vars

SeqNext == Step(1)

SeqSpec == Init /\ [][SeqNext]_vars

\* The index alone: a caller rebuilds and searches one VectorSearch object.
IndexInit == Init /\ ~openai_client

IndexNext == AddFaqsCall(1) \/ SearchCall(1)

IndexSpec == IndexInit /\ [][IndexNext]_vars

\* The delivery module, its requests handled one at a time.
DeliveryNext ==
    \/ create_template
    \/ update_template
    \/ delete_template
    \/ create_product
    \/ update_product
    \/ delete_product
    \/ create_delivery

DeliveryInit == Init /\ ~openai_client

DeliverySpec == DeliveryInit /\ [][DeliveryNext]_vars

(***************************************************************************)
(* What the claims speak of.  The expected result of a query is computed   *)
(* from the list the request read, by one rebuild and one search, and      *)
(* compared with what the handler's steps produced.                        *)
(***************************************************************************)
SearchDone(t) == th[t].op = "search_faq" /\ th[t].pc = "done"

Threshold(t) == th[t].request.confidence_threshold

ScoresOf(fs, query) ==
    LET vz == FitVectorizer(Corpus(fs))
    IN  Similarities(Transform(vz, query), TransformAll(vz, Corpus(fs)))

BestRow(fs, query) == ArgMax(ScoresOf(fs, query))
BestScore(fs, query) == ScoresOf(fs, query)[BestRow(fs, query)]

\* The score of the query of thread t against the list it read.
Score(t) == BestScore(th[t].faqs, th[t].request.question)
Matched(t) == th[t].faqs[BestRow(th[t].faqs, th[t].request.question)]

\* The fallback call of thread t failed: it raised, or its content is None.
FallbackFailed(t) ==
    \/ th[t].fbResult = "raised"
    \/ th[t].fbResult = "returned" /\ IsNone(th[t].ai_answer)

\* C1. For a non-empty knowledge base search_faq returns a direct match if
\* and only if the best cosine score is >= the threshold (equality counts);
\* then has_answer is true, the answer and source_faq_id are those of the
\* best-scoring entry, the confidence is that score and the fallback client
\* was not called.
C1_DirectMatchIffScoreMeetsThreshold ==
    \A t \in Threads :
        SearchDone(t) /\ th[t].faqs # <<>> =>
            /\ (th[t].outcome = "DIRECT_MATCH") <=> (Score(t) >= Threshold(t))
            /\ th[t].outcome = "DIRECT_MATCH" =>
                 /\ th[t].response =
                      QueryResponse(Some(Matched(t).answer), Score(t),
                                    Some(Matched(t).id), TRUE)
                 /\ th[t].fbCalls = 0

\* A direct match whose score equals a positive threshold, and a miss.
C1_Witness ==
    \E t \in Threads :
        /\ SearchDone(t) /\ th[t].outcome = "DIRECT_MATCH"
        /\ Threshold(t) > 0
        /\ th[t].response.confidence = Threshold(t)

\* C2. For an empty knowledge base search_faq returns has_answer = false,
\* confidence 0.0, no answer and no source_faq_id, and the fallback client is
\* never called, whatever the question and the threshold.
C2_EmptyKbNoAnswerNoFallback ==
    \A t \in Threads :
        /\ th[t].op = "search_faq" /\ th[t].faqs = <<>> =>
             /\ th[t].fbCalls = 0
             /\ th[t].pc \notin {"fallback_call", "fallback_wait"}
        /\ SearchDone(t) /\ (storage = <<>> \/ th[t].faqs = <<>>) =>
             /\ th[t].response = QueryResponse(None, 0, None, FALSE)
             /\ th[t].fbCalls = 0

\* An empty storage queried with a client configured and threshold 0.
C2_Witness ==
    \E t \in Threads :
        /\ SearchDone(t) /\ storage = <<>> /\ openai_client
        /\ Threshold(t) = 0

\* C3. When the best score is below the threshold and the fallback is not
\* configured or its call fails (an exception, a None content), search_faq
\* does not raise and returns has_answer = false with the similarity score
\* as confidence.
C3_FailedFallbackKeepsScore ==
    \A t \in Threads :
        /\ SearchDone(t) /\ th[t].faqs # <<>>
        /\ Score(t) < Threshold(t)
        /\ (~openai_client \/ FallbackFailed(t))
        => th[t].response = QueryResponse(None, Score(t), None, FALSE)

\* A failed call after a search that scored above zero.
C3_Witness ==
    \E t \in Threads :
        /\ SearchDone(t) /\ FallbackFailed(t)
        /\ th[t].response.confidence > 0

\* The thread is inside VectorSearch.search, past the test of
\* self.initialized and self.faqs, reading the index.
InSearch(t) == th[t].pc \in {"search_transform", "search_cosine", "search_pick"}

\* The vectorizer, the matrix and the entry list come from one rebuild of
\* the entry list: one row per entry, each the vector of that entry.
IndexOfOneRebuild ==
    LET corpus == Corpus(vector_search.faqs)
    IN  /\ vector_search.initialized
        /\ vector_search.faqs # <<>>
        /\ vector_search.vectorizer = FitVectorizer(corpus)
        /\ vector_search.vectors =
             Some(TransformAll(vector_search.vectorizer, corpus))

\* C4. With several requests running concurrently against the shared
\* vector_search, no search observes a half-rebuilt index: whenever a search
\* reads the index, the vectorizer, the matrix and the entry list come from
\* the same rebuild and the matrix has one row per listed entry.
C4_SearchNeverSeesHalfRebuiltIndex ==
    \A t \in Threads : InSearch(t) => IndexOfOneRebuild

FiveOutcomes == {"EMPTY_KB", "DIRECT_MATCH", "NO_ANSWER", "DECLINED", "GENERATED"}

\* C5. Every search_faq call ends in exactly one of the five outcomes, each
\* under its own condition; within one call the fallback client is called
\* at most once, and only after a search that scored below the threshold.
C5_FiveOutcomesOneFallbackCall ==
    \A t \in Threads :
        /\ th[t].fbCalls <= 1
        /\ th[t].fbCalls = 1 =>
             /\ th[t].op = "search_faq" /\ th[t].searched /\ openai_client
             /\ th[t].faqs # <<>>
             /\ Score(t) < Threshold(t)
        /\ SearchDone(t) =>
             /\ th[t].outcome \in FiveOutcomes
             /\ (th[t].outcome = "EMPTY_KB") <=> (th[t].faqs = <<>>)
             /\ th[t].outcome = "DIRECT_MATCH" => th[t].fbCalls = 0
             /\ th[t].outcome \in {"DECLINED", "GENERATED"} => th[t].fbCalls = 1
             /\ th[t].outcome = "NO_ANSWER" =>
                  /\ Score(t) < Threshold(t)
                  /\ th[t].fbCalls = IF openai_client THEN 1 ELSE 0

\* A call whose single fallback call raised and was not repeated.
C5_Witness ==
    \E t \in Threads :
        /\ SearchDone(t) /\ th[t].outcome = "NO_ANSWER"
        /\ th[t].fbCalls = 1 /\ th[t].fbResult = "raised"

\* The text holds the sentinel phrase at some place, each of its letters in
\* either case.
HoldsSentinelInAnyCase(text) ==
    \E i \in 1..(Len(text) - Len(Sentinel) + 1) :
        \A k \in DOMAIN Sentinel :
            text[i + k - 1] \in {Sentinel[k], UpperChar(Sentinel[k])}

\* C6. When the fallback returns a text that holds the sentinel phrase
\* "don't have enough information" in any letter case, anywhere, search_faq
\* returns has_answer = false with confidence exactly 0.4, no answer text and
\* no source_faq_id, whatever the similarity score.
C6_DeclinedInAnyLetterCase ==
    \A t \in Threads :
        /\ SearchDone(t) /\ th[t].fbResult = "returned"
        /\ ~IsNone(th[t].ai_answer)
        /\ HoldsSentinelInAnyCase(Val(th[t].ai_answer))
        => th[t].response = QueryResponse(None, DeclinedConfidence, None, FALSE)

\* The phrase in capitals, after a search that scored above 0.4.
C6_Witness ==
    \E t \in Threads :
        /\ SearchDone(t) /\ th[t].fbResult = "returned"
        /\ th[t].ai_answer = Some(UpperText(Sentinel))
        /\ th[t].best_similarity > DeclinedConfidence

\* C7. When the best score is below the threshold and the fallback returns
\* a text without the sentinel phrase, search_faq returns has_answer = true,
\* the fallback text as answer, confidence exactly 0.7 and no source_faq_id.
C7_GeneratedAnswer ==
    \A t \in Threads :
        /\ SearchDone(t) /\ th[t].fbResult = "returned"
        /\ ~IsNone(th[t].ai_answer)
        /\ ~HoldsSentinelInAnyCase(Val(th[t].ai_answer))
        => /\ Score(t) < Threshold(t)
           /\ th[t].response =
                QueryResponse(th[t].ai_answer, GeneratedConfidence, None, TRUE)

\* The phrase short of its last letter is an answer, not a refusal.
C7_Witness ==
    \E t \in Threads :
        /\ SearchDone(t) /\ th[t].outcome = "GENERATED"
        /\ th[t].ai_answer = Some(SubSeq(Sentinel, 1, Len(Sentinel) - 1))
        /\ th[t].best_similarity # GeneratedConfidence

HasSource(t) == SearchDone(t) /\ ~IsNone(th[t].response.source_faq_id)

\* C8 (as stated). The confidence of a generated answer, 0.7, is strictly
\* below that of every accepted direct match: every decision with a
\* source_faq_id has confidence > 0.7, for every threshold in [0,1].
C8_DirectMatchAboveGenerated ==
    \A t \in Threads :
        HasSource(t) => th[t].response.confidence > GeneratedConfidence

\* C8 (amended). Every decision with a source_faq_id has a confidence >= the
\* request's threshold, hence above 0.7 when the threshold is above 0.7.
C8_DirectMatchAtLeastThreshold ==
    \A t \in Threads :
        HasSource(t) =>
            /\ th[t].response.confidence >= Threshold(t)
            /\ Threshold(t) > GeneratedConfidence =>
                 th[t].response.confidence > GeneratedConfidence

\* A direct match under the default threshold that scored no more than 0.7.
C8_Witness ==
    \E t \in Threads :
        /\ HasSource(t) /\ Threshold(t) = DefaultThreshold
        /\ th[t].response.confidence <= GeneratedConfidence

ParsedStorage == [i \in DOMAIN storage |-> FAQItem(storage[i])]

\* C10. In one search_faq call the index searched is the one rebuilt from
\* the list this call read: while search runs, the index's entry list is the
\* stored list and its vectors are those of that list, so a direct match
\* names an entry (id and answer) of the stored list, after any sequence of
\* create, update and delete requests.
C10_SearchUsesIndexOfCurrentList ==
    \A t \in Threads :
        /\ InSearch(t) =>
             /\ th[t].faqs = ParsedStorage
             /\ vector_search.faqs = ParsedStorage
             /\ IndexOfOneRebuild
        /\ SearchDone(t) /\ th[t].outcome = "DIRECT_MATCH" =>
             \E i \in DOMAIN storage :
                 /\ Some(storage[i].id) = th[t].response.source_faq_id
                 /\ Some(storage[i].answer) = th[t].response.answer

\* A direct match of an entry that an earlier update_faq rewrote.
C10_Witness ==
    \E t \in Threads :
        /\ SearchDone(t) /\ th[t].outcome = "DIRECT_MATCH"
        /\ \E i \in DOMAIN storage :
             /\ Some(storage[i].id) = th[t].response.source_faq_id
             /\ storage[i].updated_at # storage[i].created_at

(***************************************************************************)
(* The stored list across create_faq, update_faq and delete_faq.           *)
(***************************************************************************)
StoredIds == {storage[i].id : i \in DOMAIN storage}

\* C11. After any sequence of create_faq, update_faq and delete_faq
\* requests no two stored FAQ entries have the same id.
C11_StoredIdsUnique ==
    \A i, j \in DOMAIN storage : storage[i].id = storage[j].id => i = j

\* Two stored entries after a delete: the entry created after the delete
\* stands beside one that is older than the deleted one, or an update has
\* rewritten one of the two.
C11_Witness ==
    /\ Len(storage) = 2
    /\ \/ storage[2].id > storage[1].id + 1
       \/ \E i \in DOMAIN storage : storage[i].updated_at # storage[i].created_at

UpdateDone(t) ==
    th[t].op = "update_faq" /\ th[t].pc = "done" /\ th[t].response.status = 200

\* C12. update_faq on an existing id replaces the entry's question and
\* answer with the request's, keeps its id, its created_at and its position
\* in the list, sets a new updated_at and leaves every other entry
\* unchanged: this is what its write to the storage does, and the entry is
\* in the storage when the request has returned.
C12_UpdateReplacesOneEntry ==
    /\ [][\A t \in Threads :
            SavePut(t) /\ th[t].op = "update_faq" =>
                /\ Len(storage') = Len(storage)
                /\ th[t].request.faq_id \in StoredIds
                /\ \A i \in DOMAIN storage :
                     IF storage[i].id = th[t].request.faq_id
                     THEN /\ storage'[i].id = storage[i].id
                          /\ storage'[i].question = th[t].request.question
                          /\ storage'[i].answer = th[t].request.answer
                          /\ storage'[i].created_at = storage[i].created_at
                          /\ ParseDatetime(storage'[i].updated_at) >
                               ParseDatetime(storage[i].updated_at)
                     ELSE storage'[i] = storage[i]]_vars
    /\ [](\A t \in Threads :
            UpdateDone(t) =>
                \E i \in DOMAIN storage :
                    /\ storage[i].id = th[t].request.faq_id
                    /\ storage[i].question = th[t].request.question
                    /\ storage[i].answer = th[t].request.answer)

\* An update of the first of two entries has returned: the entry is still
\* the first, with a later updated_at, beside an entry that was not touched.
C12_Witness ==
    \E t \in Threads :
        /\ UpdateDone(t) /\ Len(storage) = 2
        /\ storage[1].id = th[t].request.faq_id
        /\ storage[1].question # storage[2].question
        /\ storage[1].updated_at # storage[1].created_at
        /\ storage[2].updated_at = storage[2].created_at

(***************************************************************************)
(* The index by itself (IndexSpec): th[1] holds the last call made on it.  *)
(***************************************************************************)
LastAddFaqs == th[1].op = "add_faqs"
LastSearch == th[1].op = "search"

\* C13. A rebuild (add_faqs) with an empty entry list makes the index
\* not-ready; search on a not-ready index returns (None, 0.0) for every
\* query and threshold; the index becomes ready again only by a rebuild
\* with a non-empty list, and a rebuild with a non-empty list that returns
\* makes it ready.
C13_EmptyRebuildMakesSearchNoOp ==
    /\ [](/\ LastAddFaqs /\ th[1].faqs = <<>> =>
                ~vector_search.initialized /\ th[1].outcome = "OK"
          /\ LastSearch /\ ~vector_search.initialized =>
                /\ th[1].outcome = "OK"
                /\ IsNone(th[1].best_match) /\ th[1].confidence = 0
          /\ LastAddFaqs /\ th[1].faqs # <<>> /\ th[1].outcome = "OK" =>
                vector_search.initialized)
    /\ [][~vector_search.initialized /\ vector_search'.initialized =>
            th'[1].op = "add_faqs" /\ th'[1].faqs # <<>>]_vars

\* A search with threshold 0 on an index that was ready (its vectorizer is
\* fitted) before a rebuild with the empty list.
C13_Witness ==
    /\ LastSearch /\ ~vector_search.initialized
    /\ vector_search.vectorizer.fitted /\ vector_search.faqs = <<>>
    /\ th[1].request.question = <<"login">>
    /\ th[1].request.confidence_threshold = 0

SameText(e, f) == e.question = f.question /\ e.answer = f.answer

\* C14. When several indexed entries share the highest similarity score
\* for a query (in particular two entries with the same question and answer
\* text), search returns the one with the lowest row index, the earliest in
\* the entry list.
C14_TieGoesToLowestRow ==
    LastSearch /\ IndexOfOneRebuild /\ ~IsNone(th[1].best_match) =>
        LET fs == vector_search.faqs
            sims == ScoresOf(fs, th[1].request.question)
        IN  /\ \E i \in DOMAIN fs :
                 /\ th[1].best_match = Some(fs[i])
                 /\ th[1].confidence = sims[i]
                 /\ \A k \in DOMAIN fs : sims[k] <= sims[i]
                 /\ \A k \in DOMAIN fs : k < i => sims[k] < sims[i]
            /\ \A i, j \in DOMAIN fs :
                 i < j /\ SameText(fs[i], fs[j]) => th[1].best_match # Some(fs[j])

\* Two entries with the same text, both with the highest score: the first
\* is returned.
C14_Witness ==
    /\ LastSearch /\ IndexOfOneRebuild
    /\ Len(vector_search.faqs) = 2
    /\ SameText(vector_search.faqs[1], vector_search.faqs[2])
    /\ th[1].best_match = Some(vector_search.faqs[1])
    /\ th[1].confidence > 0

\* C15. For every non-empty knowledge base and every indexed entry, search
\* with exactly that entry's question text returns that entry (the first
\* one, when several entries have this question) with similarity score 1.0.
C15_ExactQuestionScoresOne ==
    /\ LastSearch /\ IndexOfOneRebuild
    /\ \E i \in DOMAIN vector_search.faqs :
         vector_search.faqs[i].question = th[1].request.question
    => /\ th[1].confidence = ConfScale
       /\ \E i \in DOMAIN vector_search.faqs :
            /\ vector_search.faqs[i].question = th[1].request.question
            /\ th[1].best_match = Some(vector_search.faqs[i])

\* C16. Rebuild is idempotent: add_faqs called twice in a row with the same
\* entry list leaves the index in a state that gives, for every query and
\* threshold, the same search result (entry and score, or the same
\* exception) as after the first call, whatever the index held before.
C16_RebuildIdempotent ==
    [][LastAddFaqs /\ th'[1].op = "add_faqs" /\ th'[1].faqs = th[1].faqs =>
         \A query \in IndexQueries, threshold \in Thresholds :
             search(vector_search', query, threshold) =
                 search(vector_search, query, threshold)]_vars

\* The second of two calls with the same two entries has returned, and
\* searches find an entry.
C16_Witness ==
    /\ LastAddFaqs /\ th[1].repeated /\ Len(th[1].faqs) = 2
    /\ ~IsNone(search(vector_search, <<"login">>, DefaultThreshold).best_match)

C18_AnswerAndSourceConsistent ==
    \A t \in Threads :
        SearchDone(t) /\ th[t].response.status = 200 =>
            /\ th[t].response.has_answer <=> ~IsNone(th[t].response.answer)
            /\ ~IsNone(th[t].response.source_faq_id) =>
                 /\ th[t].outcome = "DIRECT_MATCH"
                 /\ \E i \in DOMAIN th[t].faqs :
                      /\ Some(th[t].faqs[i].id) = th[t].response.source_faq_id
                      /\ Some(th[t].faqs[i].answer) = th[t].response.answer
            /\ th[t].outcome = "DIRECT_MATCH" =>
                 ~IsNone(th[t].response.source_faq_id)

\* A direct match of the second of two entries with different answers.
C18_Witness ==
    \E t \in Threads :
        /\ SearchDone(t) /\ th[t].outcome = "DIRECT_MATCH"
        /\ Len(th[t].faqs) = 2
        /\ th[t].faqs[1].answer # th[t].faqs[2].answer
        /\ th[t].response.source_faq_id = Some(th[t].faqs[2].id)

(***************************************************************************)
(* Writes of the stored list.                                              *)
(***************************************************************************)
\* C19. create_faq never loses data: in every execution, including one
\* where the storage read inside get_faqs raises or a stored record fails to
\* parse, the list stored after create_faq is the list stored before it with
\* exactly one new entry appended at the end.
C19_CreateOnlyAppends ==
    [][\A t \in Threads :
         SavePut(t) /\ th[t].op = "create_faq" =>
             /\ Len(storage') = Len(storage) + 1
             /\ SubSeq(storage', 1, Len(storage)) = storage
             /\ storage'[Len(storage')].question = th[t].request.question
             /\ storage'[Len(storage')].answer = th[t].request.answer]_vars

IsWrite(t) == th[t].op \in {"create_faq", "update_faq", "delete_faq"}

\* C20. If two create_faq requests (or a create_faq and an update_faq or
\* delete_faq on another entry) run concurrently, the stored list reflects
\* both once they have returned: the write of a request that read a
\* non-empty list keeps every stored entry other than the one the request
\* names, so no completed write is lost to another request's
\* read-modify-write.
C20_NoLostWrite ==
    [][\A t \in Threads :
         SavePut(t) /\ IsWrite(t)
         /\ (th[t].op = "create_faq" => Len(th[t].faqs) > 1)
         => \A i \in DOMAIN storage :
                storage[i].id # th[t].request.faq_id =>
                    \E j \in DOMAIN storage' : storage'[j] = storage[i]]_vars

ByFaqId(t) == th[t].op \in {"update_faq", "delete_faq"}

TemplateIds == {delivery_templates[i].id : i \in DOMAIN delivery_templates}

Rejected == delivery_response.status \in {400, 404}

\* C22. After any sequence of template and product requests, handled one
\* at a time, every stored product's template_id is the id of a stored
\* template, and a request that is rejected (404 for an unknown template,
\* 400 for the delete of a template in use) leaves the storage unchanged.
C22_ProductsReferToStoredTemplates ==
    /\ [](\A i \in DOMAIN delivery_products :
            delivery_products[i].template_id \in TemplateIds)
    /\ [][Rejected' =>
            UNCHANGED <<delivery_templates, delivery_products,
                        delivery_records>>]_vars

TemplateOf(template_id) ==
    delivery_templates[IndexOfId(delivery_templates, template_id)]

Delivered == delivery_response.op = "create_delivery" /\ delivery_response.status = 200

\* C23. After any sequence of template and product requests every stored
\* product's template_variables has a key for every variable of its
\* template, so the message_content produced by create_delivery contains no
\* unreplaced {{variable}} placeholder of that template.
C23_ProductsCoverTemplateVariables ==
    /\ \A i \in DOMAIN delivery_products :
         delivery_products[i].template_id \in TemplateIds =>
             \A k \in DOMAIN TemplateOf(delivery_products[i].template_id).variables :
                 TemplateOf(delivery_products[i].template_id).variables[k]
                     \in Keys(delivery_products[i].template_variables)
    /\ Delivered =>
         LET message_content == Val(delivery_response.message_content)
             template_id == delivery_records[Len(delivery_records)].template_id
         IN  \A k \in DOMAIN message_content :
                 message_content[k].kind = "placeholder" =>
                     \A v \in DOMAIN TemplateOf(template_id).variables :
                         TemplateOf(template_id).variables[v] # message_content[k].s

====
